---- MODULE Spec2Model ----
(***************************************************************************)
(* Texas Hold'em showdown (src/pokergame.py): the deck, straight           *)
(* detection, the five-card evaluator, the best-of-seven search and the    *)
(* showdown in main.                                                       *)
(*                                                                         *)
(* Python values are represented as follows.                               *)
(*   list, tuple      a sequence                                           *)
(*   Card             a record [rank, suit]; the four suit glyphs of SUITS *)
(*                    are written "S", "H", "D", "C" in the same order     *)
(*   None             the empty tuple (no score and no combo is empty)     *)
(*   a call's outcome a record [exc, val]: exc = "None" and val the value  *)
(*                    returned, or exc the name of the exception raised    *)
(*   dict             a sequence of items in insertion order               *)
(***************************************************************************)
EXTENDS Integers, Sequences, FiniteSets, TLC

VARIABLES
    deck,         \* Deck.cards, the last element is the next card dealt
    dealt,        \* every card a Deck.deal has returned, in the order dealt
    num_players,  \* main: the clamped number of players
    players,      \* main: the hole cards of P1, P2, ... in insertion order
    community,    \* main: the community cards dealt so far
    results,      \* main: the (score, combo) of P1, P2, ... in insertion order
    winners,      \* main: the indices of the winners, in list order
    pc,           \* the position of the program
    cards,        \* the argument of evaluate_5 / best_hand
    ranks,        \* the argument of is_straight
    n,            \* the argument of the last Deck.deal
    ret           \* the outcome of the last call

mainVars == <<num_players, players, community, results, winners>>

vars == <<deck, dealt, mainVars, pc, cards, ranks, n, ret>>

None == <<>>

Return(v) == [exc |-> "None", val |-> v]

Raise(e) == [exc |-> e, val |-> None]

RANKS == <<2, 3, 4, 5, 6, 7, 8, 9, 10, 11, 12, 13, 14>>

SUITS == <<"S", "H", "D", "C">>

Card(rank, suit) == [rank |-> rank, suit |-> suit]

\* ------------------------------------------------------------------------
\* Python built-ins used by the program

Range(s) == {s[i] : i \in DOMAIN s}

SetMax(S) == CHOOSE x \in S : \A y \in S : y <= x

SetMin(S) == CHOOSE x \in S : \A y \in S : x <= y

\* sorted(set(xs)): ascending, duplicates removed
RECURSIVE SortedSet(_)
SortedSet(S) == IF S = {} THEN <<>> ELSE <<SetMin(S)>> \o SortedSet(S \ {SetMin(S)})

\* xs with the element at position i removed
RemoveAt(xs, i) == [j \in 1..(Len(xs) - 1) |-> IF j < i THEN xs[j] ELSE xs[j + 1]]

\* sorted(xs, reverse=True) for a list of integers
RECURSIVE SortedDesc(_)
SortedDesc(xs) ==
    IF Len(xs) = 0 THEN <<>>
    ELSE LET m == SetMax(Range(xs))
             i == CHOOSE k \in DOMAIN xs : xs[k] = m
         IN <<m>> \o SortedDesc(RemoveAt(xs, i))

\* Python's > on two lists (or tuples) of integers
RECURSIVE ListGT(_, _)
ListGT(a, b) ==
    IF Len(a) = 0 THEN FALSE
    ELSE IF Len(b) = 0 THEN TRUE
    ELSE IF a[1] # b[1] THEN a[1] > b[1]
    ELSE ListGT(Tail(a), Tail(b))

\* sorted(pairs, reverse=True) for a collection of distinct (int, int) tuples
RECURSIVE SortedPairsDesc(_)
SortedPairsDesc(S) ==
    IF S = {} THEN <<>>
    ELSE LET m == CHOOSE x \in S : \A y \in S : y = x \/ ListGT(x, y)
         IN <<m>> \o SortedPairsDesc(S \ {m})

\* Counter(xs).items(): (key, count) in the order the keys first occur
Counter(xs) ==
    LET keys[i \in 0..Len(xs)] ==
            IF i = 0 THEN <<>>
            ELSE IF \E j \in 1..(i - 1) : xs[j] = xs[i] THEN keys[i - 1]
            ELSE Append(keys[i - 1], xs[i])
        ks == keys[Len(xs)]
    IN [k \in 1..Len(ks) |-> <<ks[k], Cardinality({i \in DOMAIN xs : xs[i] = ks[k]})>>]

\* the index tuples of itertools.combinations(range(lo, hi + 1), k), in its order
RECURSIVE IndexCombinations(_, _, _)
IndexCombinations(lo, hi, k) ==
    IF k = 0 THEN << <<>> >>
    ELSE IF hi - lo + 1 < k THEN <<>>
    ELSE LET with == IndexCombinations(lo + 1, hi, k - 1)
         IN [i \in 1..Len(with) |-> <<lo>> \o with[i]] \o IndexCombinations(lo + 1, hi, k)

\* itertools.combinations(xs, k)
combinations(xs, k) ==
    LET idx == IndexCombinations(1, Len(xs), k)
    IN [c \in 1..Len(idx) |-> [j \in 1..k |-> xs[idx[c][j]]]]

\* ------------------------------------------------------------------------
\* Deck

\* Deck.__init__ before the shuffle: every rank with every suit
OrderedDeck == [i \in 1..52 |-> Card(RANKS[((i - 1) \div 4) + 1], SUITS[((i - 1) % 4) + 1])]

\* the random source of random.shuffle: a linear congruential generator
RandomNext(x) == (75 * x + 74) % 65537

SwapAt(xs, i, j) ==
    [k \in DOMAIN xs |-> IF k = i THEN xs[j] ELSE IF k = j THEN xs[i] ELSE xs[k]]

\* random.shuffle(x): for i from the last position down to the second, swap
\* x[i] with x[j] for a random j at or below i
RECURSIVE shuffle_loop(_, _, _)
shuffle_loop(xs, i, x) ==
    IF i < 2 THEN xs
    ELSE LET y == RandomNext(x)
             j == (y % i) + 1
         IN shuffle_loop(SwapAt(xs, i, j), i - 1, y)

shuffle(xs, seed) == shuffle_loop(xs, Len(xs), seed)

\* the seeds the shuffles are drawn under
MaxSeed == 40

ShuffledDecks == {shuffle(OrderedDeck, seed) : seed \in 0..MaxSeed}

\* deal that hands out the top cards and leaves them in the deck
RECURSIVE deal_loop_Peek(_, _, _)
deal_loop_Peek(cs, k, hand) ==
    IF k = 0 THEN [exc |-> "None", val |-> hand, cards |-> cs]
    ELSE IF Len(cs) - Len(hand) < 1 THEN [exc |-> "IndexError", val |-> None, cards |-> cs]
    ELSE deal_loop_Peek(cs, k - 1, Append(hand, cs[Len(cs) - Len(hand)]))

\* deal that stops at an empty deck and returns the short hand
RECURSIVE deal_loop_Short(_, _, _)
deal_loop_Short(cs, k, hand) ==
    IF k = 0 \/ Len(cs) = 0 THEN [exc |-> "None", val |-> hand, cards |-> cs]
    ELSE deal_loop_Short(SubSeq(cs, 1, Len(cs) - 1), k - 1, Append(hand, cs[Len(cs)]))

\* [self.cards.pop() for _ in range(n)]: pop raises IndexError on an empty
\* list; the cards popped before that are gone from the deck.
\* The outcome carries the deck left in the field cards.
RECURSIVE deal_loop(_, _, _)
deal_loop(cs, k, hand) ==
    IF k = 0 THEN [exc |-> "None", val |-> hand, cards |-> cs]
    ELSE IF Len(cs) = 0 THEN [exc |-> "IndexError", val |-> None, cards |-> cs]
    ELSE deal_loop(SubSeq(cs, 1, Len(cs) - 1), k - 1, Append(hand, cs[Len(cs)]))

deal_Peek(cs, k) == deal_loop_Peek(cs, k, <<>>)

deal_Short(cs, k) == deal_loop_Short(cs, k, <<>>)

deal(cs, k) == deal_loop(cs, k, <<>>)

\* ------------------------------------------------------------------------
\* is_straight

\* the first window of 5 sorted distinct ranks spanning 4, or 0 if there is none
FirstWindow(s) ==
    LET hits == {i \in 1..(Len(s) - 4) : s[i + 4] - s[i] = 4}
    IN IF hits = {} THEN 0 ELSE SetMin(hits)

\* is_straight with the wheel reported under its ace
is_straight_WheelAceHigh(rs) ==
    LET s == SortedSet(Range(rs))
        i == FirstWindow(s)
    IN IF Len(s) < 5 THEN <<FALSE, None>>
       ELSE IF i # 0 THEN <<TRUE, s[i + 4]>>
       ELSE IF {14, 2, 3, 4, 5} \subseteq Range(s) THEN <<TRUE, 14>>
       ELSE <<FALSE, None>>

is_straight(rs) ==
    LET s == SortedSet(Range(rs))
        i == FirstWindow(s)
    IN IF Len(s) < 5 THEN <<FALSE, None>>
       ELSE IF i # 0 THEN <<TRUE, s[i + 4]>>
       ELSE IF {14, 2, 3, 4, 5} \subseteq Range(s) THEN <<TRUE, 5>>
       ELSE <<FALSE, None>>

\* ------------------------------------------------------------------------
\* evaluate_5

\* kickers of Three of a Kind and One Pair: the other ranks, descending
KickersUnsorted(rs, made_rank) ==
    SelectSeq(rs, LAMBDA r : r # made_rank)

Kickers(rs, made_rank) ==
    SortedDesc(SelectSeq(rs, LAMBDA r : r # made_rank))

\* tie-break of Flush and High Card: all ranks, descending
AllRanksDesc(rs) == SortedDesc(rs)

\* Two Pair: the ranks r of the hand with counts[r] == 1
TwoPairSinglesNotTopPair(rs, counts) ==
    LET pairs == {counts[i][1] : i \in {j \in DOMAIN counts : counts[j][2] = 2}}
    IN {r \in Range(rs) : r # SetMax(pairs \cup {0})}

TwoPairSingles(rs, counts) ==
    {r \in Range(rs) : \E i \in DOMAIN counts : counts[i] = <<r, 1>>}

evaluate_5(cs) ==
    LET rs == [i \in DOMAIN cs |-> cs[i].rank]
        suits == [i \in DOMAIN cs |-> cs[i].suit]
        counts == Counter(rs)
        counts_by_freq == SortedPairsDesc({<<counts[i][2], counts[i][1]>> : i \in DOMAIN counts})
        freqs == SortedDesc([i \in DOMAIN counts |-> counts[i][2]])
        is_flush == Cardinality(Range(suits)) = 1
        st == is_straight(rs)
        straight == st[1]
        top_straight == st[2]
        singles == TwoPairSingles(rs, counts)
        pair_ranks == SortedDesc(SelectSeq([i \in DOMAIN counts |-> counts[i][1]],
                                           LAMBDA r : \E i \in DOMAIN counts : counts[i] = <<r, 2>>))
    IN  IF is_flush /\ straight THEN Return(<<9, top_straight>>)
        ELSE IF Len(freqs) < 1 THEN Raise("IndexError")
        ELSE IF freqs[1] = 4 THEN
            LET four_rank == counts_by_freq[1][2]
                others == {r \in Range(rs) : r # four_rank}
            IN IF others = {} THEN Raise("ValueError")
               ELSE Return(<<8, four_rank, SetMax(others)>>)
        ELSE IF freqs[1] = 3 /\ Len(freqs) < 2 THEN Raise("IndexError")
        ELSE IF freqs[1] = 3 /\ freqs[2] = 2 THEN
            Return(<<7, counts_by_freq[1][2], counts_by_freq[2][2]>>)
        ELSE IF is_flush THEN Return(<<6, AllRanksDesc(rs)>>)
        ELSE IF straight THEN Return(<<5, top_straight>>)
        ELSE IF freqs[1] = 3 THEN
            LET three_rank == counts_by_freq[1][2]
            IN Return(<<4, three_rank, Kickers(rs, three_rank)>>)
        ELSE IF freqs[1] = 2 /\ Len(freqs) < 2 THEN Raise("IndexError")
        ELSE IF freqs[1] = 2 /\ freqs[2] = 2 THEN
            IF singles = {} THEN Raise("ValueError")
            ELSE Return(<<3, pair_ranks[1], pair_ranks[2], SetMax(singles)>>)
        ELSE IF freqs[1] = 2 THEN
            LET pair_rank == counts_by_freq[1][2]
            IN Return(<<2, pair_rank, Kickers(rs, pair_rank)>>)
        ELSE Return(<<1, AllRanksDesc(rs)>>)

\* ------------------------------------------------------------------------
\* the comparison of scores and best_hand

\* whether element i of a score tuple is a list: the rank lists built at the
\* returns of categories 6 and 1 (element 2) and 4 and 2 (element 3)
IsList(score, i) ==
    \/ score[1] \in {1, 6} /\ i = 2
    \/ score[1] \in {2, 4} /\ i = 3

\* the first position at or after i where the tuples differ, or 0 if one is a
\* prefix of the other (later positions are not compared)
RECURSIVE FirstDiff(_, _, _)
FirstDiff(a, b, i) ==
    IF i > Len(a) \/ i > Len(b) THEN 0
    ELSE IF a[i] # b[i] THEN i
    ELSE FirstDiff(a, b, i + 1)

\* Python's > on two score tuples: the first differing element decides
TupleGT(a, b) ==
    LET d == FirstDiff(a, b, 1)
    IN IF d = 0 THEN Len(a) > Len(b)
       ELSE IF IsList(a, d) THEN ListGT(a[d], b[d])
       ELSE a[d] > b[d]

\* the test of the search loop: best is None or val > best
BetterCategory(val, best) == best = None \/ val[1] > best[1]

Better(val, best) == best = None \/ TupleGT(val, best)

best_hand(seven_cards) ==
    LET combos == combinations(seven_cards, 5)
        loop[i \in 0..Len(combos)] ==
            IF i = 0 THEN Return(<<None, None>>)
            ELSE LET prev == loop[i - 1]
                     val == evaluate_5(combos[i])
                 IN IF prev.exc # "None" THEN prev
                    ELSE IF val.exc # "None" THEN val
                    ELSE IF Better(val.val, prev.val[1]) THEN Return(<<val.val, combos[i]>>)
                    ELSE prev
    IN loop[Len(combos)]

\* ------------------------------------------------------------------------
\* The inputs of the pure functions

\* the position of a card in OrderedDeck
DeckIndex(c) == CHOOSE i \in 1..52 : OrderedDeck[i] = c

\* the highest low rank of the cards evaluate_5 is tried on (the ace is always in)
EvalRankMax == 6

EvalDeck == {i \in 1..52 : OrderedDeck[i].rank <= EvalRankMax \/ OrderedDeck[i].rank = 14}

\* a hand grows in deck order, so every set of cards is built once
Follows(cs, i) == IF Len(cs) = 0 THEN TRUE ELSE DeckIndex(cs[Len(cs)]) < i

MainIdle ==
    /\ deck = <<>> /\ dealt = <<>> /\ num_players = 0 /\ players = <<>> /\ community = <<>>
    /\ results = <<>> /\ winners = <<>> /\ n = 0

InitInput ==
    /\ MainIdle
    /\ pc = "input" /\ cards = <<>> /\ ranks = <<>> /\ ret = None

\* ------------------------------------------------------------------------
\* SpecEval5: evaluate_5 on every 5-card hand of EvalDeck

AddEvalCard ==
    /\ pc = "input" /\ Len(cards) < 5
    /\ \E i \in EvalDeck : Follows(cards, i) /\ cards' = Append(cards, OrderedDeck[i])
    /\ UNCHANGED <<deck, dealt, mainVars, pc, ranks, n, ret>>

Evaluate5 ==
    /\ pc = "input" /\ Len(cards) = 5
    /\ ret' = evaluate_5(cards)
    /\ pc' = "evaluated"
    /\ UNCHANGED <<deck, dealt, mainVars, cards, ranks, n>>

NextEval5 == AddEvalCard \/ Evaluate5

SpecEval5 == InitInput /\ [][NextEval5]_vars

\* what the hand is, stated on the cards
Cnt(cs, r) == Cardinality({i \in DOMAIN cs : cs[i].rank = r})

RankSet(cs) == {cs[i].rank : i \in DOMAIN cs}

AllSameSuit(cs) == \A i \in DOMAIN cs : cs[i].suit = cs[1].suit

Wheel(cs) == RankSet(cs) = {14, 2, 3, 4, 5}

Run5(cs) == \E lo \in 2..10 : RankSet(cs) = lo..(lo + 4)

Rule(cs, c) ==
    CASE c = 9 -> AllSameSuit(cs) /\ (Run5(cs) \/ Wheel(cs))
      [] c = 8 -> \E r \in RankSet(cs) : Cnt(cs, r) = 4
      [] c = 7 -> \E r, q \in RankSet(cs) : Cnt(cs, r) = 3 /\ Cnt(cs, q) = 2
      [] c = 6 -> AllSameSuit(cs)
      [] c = 5 -> Run5(cs) \/ Wheel(cs)
      [] c = 4 -> \E r \in RankSet(cs) : Cnt(cs, r) = 3
      [] c = 3 -> \E r, q \in RankSet(cs) : r # q /\ Cnt(cs, r) = 2 /\ Cnt(cs, q) = 2
      [] c = 2 -> \E r \in RankSet(cs) : Cnt(cs, r) = 2
      [] c = 1 -> TRUE

FirstRule(cs) == CHOOSE c \in 1..9 : Rule(cs, c) /\ \A d \in (c + 1)..9 : ~Rule(cs, d)

\* L lists, in descending order, the ranks of the cards of cs whose rank is not in skip
DescendingRanksOf(L, cs, skip) ==
    /\ \A i \in 1..(Len(L) - 1) : L[i] >= L[i + 1]
    /\ \A r \in 2..14 : Cardinality({i \in DOMAIN L : L[i] = r})
                          = IF r \in skip THEN 0 ELSE Cnt(cs, r)

TieBreak(cs, s) ==
    CASE s[1] \in {9, 5} -> s = <<s[1], IF Wheel(cs) THEN 5 ELSE SetMax(RankSet(cs))>>
      [] s[1] = 8 -> Len(s) = 3 /\ Cnt(cs, s[2]) = 4 /\ Cnt(cs, s[3]) = 1
      [] s[1] = 7 -> Len(s) = 3 /\ Cnt(cs, s[2]) = 3 /\ Cnt(cs, s[3]) = 2
      [] s[1] \in {6, 1} -> Len(s) = 2 /\ Len(s[2]) = 5 /\ DescendingRanksOf(s[2], cs, {})
      [] s[1] = 4 -> Len(s) = 3 /\ Cnt(cs, s[2]) = 3 /\ Len(s[3]) = 2
                     /\ DescendingRanksOf(s[3], cs, {s[2]})
      [] s[1] = 3 -> Len(s) = 4 /\ Cnt(cs, s[2]) = 2 /\ Cnt(cs, s[3]) = 2 /\ s[2] > s[3]
                     /\ Cnt(cs, s[4]) = 1
      [] s[1] = 2 -> Len(s) = 3 /\ Cnt(cs, s[2]) = 2 /\ Len(s[3]) = 3
                     /\ DescendingRanksOf(s[3], cs, {s[2]})

\* C2: evaluate_5 of 5 distinct cards returns the category of the first rule
\* that matches, tried from Straight Flush (9) down to High Card (1), with
\* that category's tie-break: the straight top for 9 and 5, (quad, kicker)
\* for 8, (triple, pair) for 7, the five ranks descending for 6 and 1,
\* (triple, the other ranks descending) for 4, (higher pair, lower pair,
\* kicker) for 3, (pair, the other three ranks descending) for 2.
C2_FirstMatchingRule ==
    (pc = "evaluated" /\ Len(cards) = 5) =>
        /\ ret.exc = "None"
        /\ ret.val[1] = FirstRule(cards)
        /\ TieBreak(cards, ret.val)

\* a Two Pair hand whose kicker is below its lower pair has been evaluated
C2_Witness ==
    /\ pc = "evaluated" /\ Len(cards) = 5
    /\ ret.val[1] = 3 /\ ret.val[4] < ret.val[3]

\* ------------------------------------------------------------------------
\* SpecPool: evaluate_5 and best_hand on every pool of 0 to 7 cards of PoolDeck

\* the highest low rank of the cards of a pool (the ace is always in)
PoolRankMax == 6

\* the ranks up to this one are in the pool deck in all four suits, the higher
\* ones in the first suit only
PoolAllSuitsRankMax == 3

\* the size of the pool main hands to best_hand: 2 hole and 5 community cards
PoolSize == 7

PoolDeck ==
    {i \in 1..52 :
        /\ OrderedDeck[i].rank <= PoolRankMax \/ OrderedDeck[i].rank = 14
        /\ OrderedDeck[i].rank <= PoolAllSuitsRankMax \/ OrderedDeck[i].suit = SUITS[1]}

AddPoolCard ==
    /\ pc = "input" /\ Len(cards) < PoolSize
    /\ \E i \in PoolDeck : Follows(cards, i) /\ cards' = Append(cards, OrderedDeck[i])
    /\ UNCHANGED <<deck, dealt, mainVars, pc, ranks, n, ret>>

EvaluateAny ==
    /\ pc = "input"
    /\ ret' = evaluate_5(cards)
    /\ pc' = "evaluated"
    /\ UNCHANGED <<deck, dealt, mainVars, cards, ranks, n>>

BestHand ==
    /\ pc = "input"
    /\ ret' = best_hand(cards)
    /\ pc' = "selected"
    /\ UNCHANGED <<deck, dealt, mainVars, cards, ranks, n>>

NextPool == AddPoolCard \/ EvaluateAny \/ BestHand

SpecPool == InitInput /\ [][NextPool]_vars

\* the cards of cs at the positions S, in the order of cs
SubHand(cs, S) == LET idx == SortedSet(S) IN [j \in 1..Len(idx) |-> cs[idx[j]]]

FiveSubsets(cs) == {S \in SUBSET DOMAIN cs : Cardinality(S) = 5}

\* C1: on a pool of 7 distinct cards the score best_hand returns is at least
\* evaluate_5 of each of the 21 five-card subsets, and it is the score of the
\* combo returned with it, one of those subsets.
C1_BestIsMaximal ==
    (pc = "selected" /\ Len(cards) = 7) =>
        /\ ret.exc = "None"
        /\ Cardinality(FiveSubsets(cards)) = 21
        /\ \A S \in FiveSubsets(cards) :
              ~TupleGT(evaluate_5(SubHand(cards, S)).val, ret.val[1])
        /\ \E S \in FiveSubsets(cards) :
              /\ ret.val[2] = SubHand(cards, S)
              /\ ret.val[1] = evaluate_5(SubHand(cards, S)).val

\* best_hand has returned a combo that is not the first one tried, and a
\* subset of the same category scores lower, so the tie-break decided
C1_Witness ==
    /\ pc = "selected" /\ Len(cards) = 7 /\ ret.exc = "None"
    /\ ret.val[2] # SubHand(cards, 1..5)
    /\ \E S \in FiveSubsets(cards) :
          LET v == evaluate_5(SubHand(cards, S)).val
          IN v[1] = ret.val[1][1] /\ TupleGT(ret.val[1], v)

\* C8: evaluate_5 on other than 5 cards (0 to 4, 6 or 7) raises an error and
\* returns no HandScore.
C8_EvaluateRejectsNot5 ==
    (pc = "evaluated" /\ Len(cards) # 5) => ret.exc # "None"

\* C9: best_hand on a pool of fewer than 5 cards raises an error and returns
\* no (score, combo).
C9_BestHandRejectsShortPool ==
    (pc = "selected" /\ Len(cards) < 5) => ret.exc # "None"

\* ------------------------------------------------------------------------
\* SpecPerm: evaluate_5 on every ordering of every 5-card hand of PoolDeck

AddPermCard ==
    /\ pc = "input" /\ Len(cards) < 5
    /\ \E i \in PoolDeck : Follows(cards, i) /\ cards' = Append(cards, OrderedDeck[i])
    /\ UNCHANGED <<deck, dealt, mainVars, pc, ranks, n, ret>>

\* the two reorderings every order of the cards is reached by: the first two
\* cards exchanged, and the first card moved to the end
SwapFirstTwo(cs) == <<cs[2], cs[1]>> \o SubSeq(cs, 3, Len(cs))

Rotate(cs) == Append(Tail(cs), cs[1])

\* the caller reorders the same cards and evaluates them again
Reevaluate ==
    /\ pc = "evaluated"
    /\ cards' \in {SwapFirstTwo(cards), Rotate(cards)}
    /\ ret' = evaluate_5(cards')
    /\ UNCHANGED <<deck, dealt, mainVars, pc, ranks, n>>

NextPerm == AddPermCard \/ Evaluate5 \/ Reevaluate

SpecPerm == InitInput /\ [][NextPerm]_vars

\* the cards of cs in deck order
InDeckOrder(cs) == SubHand(OrderedDeck, {DeckIndex(cs[i]) : i \in DOMAIN cs})

\* C3: whatever the order of 5 distinct cards, evaluate_5 returns one score,
\* of one of the categories 1..9, and it is the score of the same cards in
\* any other order (here: in deck order).
C3_OrderIndependent ==
    (pc = "evaluated" /\ Len(cards) = 5) =>
        /\ ret.exc = "None"
        /\ ret.val[1] \in 1..9
        /\ ret = evaluate_5(InDeckOrder(cards))

\* a One Pair hand has been evaluated with its kickers in ascending order
\* and the pair last
C3_Witness ==
    /\ pc = "evaluated" /\ Len(cards) = 5
    /\ ret.val[1] = 2
    /\ cards[4].rank = cards[5].rank
    /\ cards[1].rank < cards[2].rank /\ cards[2].rank < cards[3].rank
    /\ cards # InDeckOrder(cards)

\* ------------------------------------------------------------------------
\* SpecStraight5: is_straight on every list of 5 ranks

InitStraight5 ==
    /\ MainIdle
    /\ pc = "input" /\ cards = <<>> /\ ret = None
    /\ ranks \in [1..5 -> Range(RANKS)]

IsStraight ==
    /\ pc = "input"
    /\ ret' = is_straight(ranks)
    /\ pc' = "straight"
    /\ UNCHANGED <<deck, dealt, mainVars, cards, ranks, n>>

NextStraight5 == IsStraight

SpecStraight5 == InitStraight5 /\ [][NextStraight5]_vars

\* the top ranks of the runs of 5 consecutive ranks among rs
RunTops(rs) == {t \in 6..14 : (t - 4)..t \subseteq Range(rs)}

HasWheel(rs) == {14, 2, 3, 4, 5} \subseteq Range(rs)

\* C6: on 5 ranks in 2..14 is_straight returns (True, max rank) when they
\* are 5 distinct consecutive integers, (True, 5) when they are exactly
\* {14, 2, 3, 4, 5}, and (False, None) otherwise, as whenever a rank repeats;
\* {10, 11, 12, 13, 14} gives top 14.
C6_FiveRanks ==
    (pc = "straight" /\ Len(ranks) = 5) =>
        /\ (\E lo \in 2..10 : Range(ranks) = lo..(lo + 4))
              => ret = <<TRUE, SetMax(Range(ranks))>>
        /\ Range(ranks) = {14, 2, 3, 4, 5} => ret = <<TRUE, 5>>
        /\ (/\ ~\E lo \in 2..10 : Range(ranks) = lo..(lo + 4)
            /\ Range(ranks) # {14, 2, 3, 4, 5})
              => ret = <<FALSE, None>>
        /\ Cardinality(Range(ranks)) < 5 => ret = <<FALSE, None>>
        /\ Range(ranks) = 10..14 => ret = <<TRUE, 14>>

\* the wheel, given out of order, has been recognised with top 5
C6_Witness ==
    /\ pc = "straight"
    /\ ranks = <<14, 2, 3, 4, 5>>
    /\ ret = <<TRUE, 5>>

\* ------------------------------------------------------------------------
\* SpecStraightLong: is_straight on the rank lists of pools of 6 and 7 cards

\* the highest low rank of a long rank list (the ace is always in)
StraightRankMax == 7

LongRanks == {r \in Range(RANKS) : r <= StraightRankMax \/ r = 14}

\* a rank list grows one rank at a time; at most one rank is a repeat
AppendRank ==
    /\ pc = "input" /\ Len(ranks) < PoolSize
    /\ \E r \in LongRanks :
          /\ Len(ranks) - Cardinality(Range(ranks) \ {r}) <= 1
          /\ ranks' = Append(ranks, r)
    /\ UNCHANGED <<deck, dealt, mainVars, pc, cards, n, ret>>

IsStraightLong ==
    /\ pc = "input" /\ Len(ranks) > 5
    /\ ret' = is_straight(ranks)
    /\ pc' = "straight"
    /\ UNCHANGED <<deck, dealt, mainVars, cards, ranks, n>>

NextStraightLong == AppendRank \/ IsStraightLong

SpecStraightLong == InitInput /\ [][NextStraightLong]_vars

\* C5: on more than 5 distinct ranks (6 or 7) is_straight reports the highest
\* top among all runs of 5 consecutive ranks, and the wheel (top 5) only when
\* there is no such run.
C5_HighestStraightTop ==
    (pc = "straight" /\ Cardinality(Range(ranks)) > 5) =>
        IF RunTops(ranks) # {} THEN ret = <<TRUE, SetMax(RunTops(ranks))>>
        ELSE IF HasWheel(ranks) THEN ret = <<TRUE, 5>>
        ELSE ret = <<FALSE, None>>

\* ------------------------------------------------------------------------
\* SpecDeck: any sequence of deals from one shuffled deck

\* the largest number of cards one deal asks for
MaxDeal == 5

InitDeck ==
    /\ deck \in ShuffledDecks
    /\ dealt = <<>>
    /\ num_players = 0 /\ players = <<>> /\ community = <<>>
    /\ results = <<>> /\ winners = <<>>
    /\ pc = "dealing" /\ cards = <<>> /\ ranks = <<>> /\ n = 0 /\ ret = None

Deal ==
    \E k \in 1..MaxDeal :
        LET r == deal(deck, k)
        IN /\ n' = k
           /\ ret' = [exc |-> r.exc, val |-> r.val]
           /\ deck' = r.cards
           /\ dealt' = dealt \o r.val
           /\ UNCHANGED <<mainVars, pc, cards, ranks>>

NextDeck == Deal

SpecDeck == InitDeck /\ [][NextDeck]_vars

\* C10: a deal(n) with n above the number of cards that remain raises to the
\* caller: it returns no hand, no card is handed out by it, and no step ever
\* puts a card back into the deck.
C10_ExhaustionIsFatal ==
    [][/\ n' > Len(deck) =>
            /\ ret'.exc = "IndexError"
            /\ ret'.val = None
            /\ dealt' = dealt
       /\ Len(deck') <= Len(deck)
       /\ Range(deck') \subseteq Range(deck)]_vars

\* after deals that went well, a deal asked for more cards than remained
\* and raised
C10_Witness ==
    /\ pc = "dealing"
    /\ Len(dealt) >= 48 /\ Len(dealt) < 52
    /\ n > 52 - Len(dealt)
    /\ ret.exc = "IndexError"

\* ------------------------------------------------------------------------
\* SpecMain: main, from the shuffled deck to the winners

\* the largest player count given on the command line
MaxPlayersArg == 10

\* num_players = max(2, min(9, num_players))
Clamp(a) == LET lo == IF a < 9 THEN a ELSE 9 IN IF lo > 2 THEN lo ELSE 2

InitMain ==
    /\ deck \in ShuffledDecks
    /\ dealt = <<>>
    /\ num_players \in {Clamp(a) : a \in 0..MaxPlayersArg}
    /\ players = <<>> /\ community = <<>> /\ results = <<>> /\ winners = <<>>
    /\ pc = "deal_players" /\ cards = <<>> /\ ranks = <<>> /\ n = 0 /\ ret = None

\* players = {f"P{idx+1}": deck.deal(2) for idx in range(num_players)}, one item
DealHole ==
    /\ pc = "deal_players"
    /\ LET r == deal(deck, 2)
       IN /\ n' = 2
          /\ deck' = r.cards
          /\ dealt' = dealt \o r.val
          /\ players' = IF r.exc = "None" THEN Append(players, r.val) ELSE players
          /\ pc' = IF r.exc # "None" THEN "crashed"
                   ELSE IF Len(players) + 1 = num_players THEN "flop"
                   ELSE "deal_players"
    /\ UNCHANGED <<num_players, community, results, winners, cards, ranks, ret>>

\* one of the three deals of community = deck.deal(3) + deck.deal(1) + deck.deal(1)
DealCommunity(at, k, then) ==
    /\ pc = at
    /\ LET r == deal(deck, k)
       IN /\ n' = k
          /\ deck' = r.cards
          /\ dealt' = dealt \o r.val
          /\ community' = community \o r.val
          /\ pc' = IF r.exc # "None" THEN "crashed" ELSE then
    /\ UNCHANGED <<num_players, players, results, winners, cards, ranks, ret>>

DealFlop == DealCommunity("flop", 3, "turn")

DealTurn == DealCommunity("turn", 1, "river")

DealRiver == DealCommunity("river", 1, "results")

\* one turn of the loop: results[name] = best_hand(hole + community)
ComputeResult ==
    /\ pc = "results"
    /\ LET seven == players[Len(results) + 1] \o community
           r == best_hand(seven)
       IN /\ results' = IF r.exc = "None" THEN Append(results, r.val) ELSE results
          /\ pc' = IF r.exc # "None" THEN "crashed"
                   ELSE IF Len(results) + 1 = num_players THEN "winners"
                   ELSE "results"
    /\ UNCHANGED <<deck, dealt, num_players, players, community, winners, cards, ranks, n, ret>>

\* max(score for score, combo in results.values()): the first score that no
\* later one is greater than
max_score(rs) ==
    LET best[i \in 1..Len(rs)] ==
            IF i = 1 THEN rs[1][1]
            ELSE IF TupleGT(rs[i][1], best[i - 1]) THEN rs[i][1]
            ELSE best[i - 1]
    IN best[Len(rs)]

\* the winner list cut after its first entry
find_winners_FirstOnly(rs) ==
    LET best_score == max_score(rs)
        first == CHOOSE p \in 1..Len(rs) :
                    rs[p][1] = best_score /\ \A q \in 1..(p - 1) : rs[q][1] # best_score
    IN <<first>>

\* winners = [p for p, (score, combo) in results.items() if score == best_score]
find_winners(rs) ==
    LET best_score == max_score(rs)
        keep[i \in 0..Len(rs)] ==
            IF i = 0 THEN <<>>
            ELSE IF rs[i][1] = best_score THEN Append(keep[i - 1], i)
            ELSE keep[i - 1]
    IN keep[Len(rs)]

FindWinners ==
    /\ pc = "winners"
    /\ winners' = find_winners(results)
    /\ pc' = "done"
    /\ UNCHANGED <<deck, dealt, num_players, players, community, results, cards, ranks, n, ret>>

NextMain == DealHole \/ DealFlop \/ DealTurn \/ DealRiver \/ ComputeResult \/ FindWinners

SpecMain == InitMain /\ [][NextMain]_vars

\* the cards in the players' hands and on the board
Flatten(hands) ==
    LET all[i \in 0..Len(hands)] == IF i = 0 THEN <<>> ELSE all[i - 1] \o hands[i]
    IN all[Len(hands)]

OnTable == Flatten(players) \o community

\* C4: the winner list holds exactly the players whose score no other
\* player's score is greater than (all who tie at the maximum, nobody else),
\* in the order the players were inserted.
C4_WinnersAreTheMaxima ==
    pc = "done" =>
        /\ \A p \in 1..num_players :
              (\E i \in DOMAIN winners : winners[i] = p)
                  <=> (\A q \in 1..num_players : ~TupleGT(results[q][1], results[p][1]))
        /\ \A i \in 1..(Len(winners) - 1) : winners[i] < winners[i + 1]

\* two players who are not neighbours tie at the maximum and others lose
C4_Witness ==
    /\ pc = "done"
    /\ Len(winners) = 2 /\ Len(winners) < num_players
    /\ winners[2] > winners[1] + 1
    /\ results[winners[1]][1] = results[winners[2]][1]

\* C7: at every point of the deal of main (2 cards to each of up to 9
\* players, then 3 + 1 + 1 community cards) no card is twice among the cards
\* dealt, none of them is still in the deck, and deck and table together are
\* the 52 cards.
C7_NoDuplicateCard ==
    /\ Cardinality(Range(OnTable)) = Len(OnTable)
    /\ Range(OnTable) \cap Range(deck) = {}
    /\ Cardinality(Range(deck)) = Len(deck)
    /\ Range(OnTable) \cup Range(deck) = Range(OrderedDeck)
    /\ Len(OnTable) <= 23

\* all 23 cards of a nine-player game have been dealt
C7_Witness ==
    /\ num_players = 9 /\ pc = "results"
    /\ Len(OnTable) = 23 /\ Len(deck) = 29

====
